---- MODULE Spec2Model ----
(***************************************************************************)
(* Model of the R&D proposal pipeline of minj-k/RnD-project-finder:        *)
(*   collector.py  DataCollector.collect                                   *)
(*   analyzer.py   ContextAnalyzer.get_ranked_context                      *)
(*   generator.py  ProposalGenerator.generate_full_proposal                *)
(*   app.py        the streamlit script                                    *)
(*   main_desktop.py  MainWindow and Worker                                *)
(*                                                                         *)
(* Python strings are sequences of one-character strings.  A dict value is *)
(* a record [none, s]: none = TRUE is Python's None, otherwise s is the    *)
(* string.  A dict is a function from the keys it has to such values.      *)
(* Python's 0-based list positions are 1-based here.                       *)
(***************************************************************************)
EXTENDS Integers, Sequences, FiniteSets, TLC

VARIABLES
    pc,                  \* position of the analyzer's caller: "new", "idle", "done"
    model,               \* ContextAnalyzer.model is loaded (TRUE) or None (FALSE)
    user_topic,          \* argument user_topic
    projects,            \* argument projects (the caller's list object)
    top_k,               \* argument top_k
    context_texts,       \* local context_texts of the last call
    cos_scores,          \* local cos_scores of the last call
    top_results_indices, \* local top_results_indices of the last call
    ranked_projects,     \* value returned by the last call
    encodeCalls,         \* number of model.encode calls made so far
    ui,                  \* the program that runs: "none", "web" (app.py), "desktop"
    loaded,              \* app.py: load_models has run (st.cache_resource holds its result)
    driver,              \* DataCollector.driver is set (TRUE) or None (FALSE)
    llm,                 \* ProposalGenerator.model is set (TRUE) or None (FALSE)
    portal,              \* what the NTIS site answers to a scrape
    runs,                \* generations started so far
    topic_input,         \* the topic text field (st.text_input / QLineEdit)
    count_slider,        \* the context count slider
    trace,               \* stages entered by the last run, in order
    delivered,           \* text shown to the user (st.markdown, st.error / result_display)
    generate_button,     \* desktop: generate_button is enabled
    status_label,        \* desktop: status_label text
    worker,              \* desktop: "none", "started", "returned", "finished"
    signals,             \* desktop: signals emitted by the worker, not yet handled
    gen                  \* generate_full_proposal called on its own: its locals and result

analyzerVars == <<pc, model, user_topic, projects, top_k, context_texts, cos_scores,
                  top_results_indices, ranked_projects, encodeCalls>>
uiVars == <<ui, loaded, driver, llm, portal, runs, topic_input, count_slider, trace,
            delivered, generate_button, status_label, worker, signals, gen>>
vars == <<analyzerVars, uiVars>>

----------------------------------------------------------------------------
(* Bounds *)

MaxLen == 3      \* longest candidate list
MaxTopK == 3     \* largest top_k
ScoreRes == 1    \* cosine scores are the grid -ScoreRes..ScoreRes (for -1.0 .. 1.0)
MaxPortal == 2   \* most records the portal lists
MaxRuns == 1     \* generations started in one session

\* Program constants
WebSliderMin == 3     \* app.py st.slider min_value
WebSliderMax == 15    \* app.py st.slider max_value
DeskSliderMin == 3    \* main_desktop.py count_slider.setRange
DeskSliderMax == 10   \* main_desktop.py count_slider.setRange
SliderDefault == 5    \* the value both sliders start at

----------------------------------------------------------------------------
(* Python values *)

Str(s) == [none |-> FALSE, s |-> s]
None == [none |-> TRUE, s |-> <<>>]

\* dict.get(key, default): the default only replaces a MISSING key
Get(p, key, default) == IF key \in DOMAIN p THEN p[key] ELSE default

\* str(v) as an f-string replacement field renders it: None becomes "None"
Format(v) == IF v.none THEN <<"N", "o", "n", "e">> ELSE v.s

Min(a, b) == IF a <= b THEN a ELSE b

\* list[:k] for k >= 0
Take(s, k) == SubSeq(s, 1, Min(k, Len(s)))

----------------------------------------------------------------------------
(* Candidate records *)

\* collector.py lines 133-137: the record _scrape_ntis appends
FullRecord(t, u) ==
    [title |-> Str(t), agency |-> Str(<<"g">>), department |-> Str(<<"x">>),
     end_date |-> Str(<<"d">>), url |-> Str(u), summary |-> Str(<<>>),
     source |-> Str(<<"N", "T", "I", "S">>)]

RecA == FullRecord(<<"a">>, <<"1">>)
RecB == FullRecord(<<"a">>, <<"2">>)       \* same title and department as RecA
RecC == FullRecord(<<"b">>, <<"3">>)
RecNull == [title |-> None, url |-> Str(<<"4">>)]   \* null title, no department
RecBare == [url |-> Str(<<"5">>)]                   \* no comparison field at all

\* records as _scrape_ntis builds them (every key present, every value a string)
CollectedPool == {RecA, RecB, RecC}
\* records a caller of get_ranked_context may pass
Pool == {RecA, RecB, RecNull, RecBare}

Lists(S, n) == UNION {[1..m -> S] : m \in 0..n}

Topics == {<<>>, <<"t">>}

----------------------------------------------------------------------------
(* analyzer.py *)

\* line 45: f"{p.get('title', '')} ({p.get('department', '')})"
ContextText(p) ==
    Format(Get(p, "title", Str(<<>>))) \o <<" ", "(">>
        \o Format(Get(p, "department", Str(<<>>))) \o <<")">>

ContextTexts(projs) == [i \in 1..Len(projs) |-> ContextText(projs[i])]

Scores == (0 - ScoreRes)..ScoreRes

\* lines 48-52: encode + cos_sim. The embedding model is a function of the
\* text that this module does not know: every assignment of scores that
\* gives equal texts equal scores is possible.
CosSim(topic, texts) ==
    {s \in [1..Len(texts) -> Scores] :
        \A i, j \in 1..Len(texts) : texts[i] = texts[j] => s[i] = s[j]}

\* the minus forgotten: argsort of the scores themselves
Neg_Forgotten(a) == a

\* line 56: the unary minus
Neg(a) == [i \in 1..Len(a) |-> 0 - a[i]]

Perms(n) == {f \in [1..n -> 1..n] : \A i, j \in 1..n : i # j => f[i] # f[j]}

\* line 56: np.argsort(a) with the default kind ('quicksort', not stable):
\* any permutation that puts a in ascending order
ArgSort(a) ==
    {f \in Perms(Len(a)) : \A i \in 1..(Len(a) - 1) : a[f[i]] <= a[f[i + 1]]}

\* only the compared fields of each record are copied out
Select_ComparedFieldsOnly(projs, indices) ==
    [i \in 1..Len(indices) |->
        [k \in DOMAIN projs[indices[i]] \cap {"title", "department"} |->
            projs[indices[i]][k]]]

\* line 58: [projects[i] for i in top_results_indices]
Select(projs, indices) == [i \in 1..Len(indices) |-> projs[indices[i]]]

\* line 36: not self.model
ModelMissing(m) == ~m

\* the empty-list check left out
IsEmptyList_Never(projs) == FALSE

\* line 39: not projects
IsEmptyList(projs) == Len(projs) = 0

EarlyReturn ==
    [texts |-> <<>>, scores |-> <<>>, indices |-> <<>>, ranked |-> <<>>, encodes |-> 0]

\* lines 36-61: the outcomes of one call
GetRankedContext(m, topic, projs, k) ==
    IF ModelMissing(m) THEN {EarlyReturn}
    ELSE IF IsEmptyList(projs) THEN {EarlyReturn}
    ELSE LET texts == ContextTexts(projs) IN
         UNION {
           {[texts |-> texts, scores |-> s, indices |-> Take(f, k),
             ranked |-> Select(projs, Take(f, k)), encodes |-> 2] :
              f \in ArgSort(Neg(s))} :
           s \in CosSim(topic, texts)}

----------------------------------------------------------------------------
(* The analyzer called on its own *)

NoText == [kind |-> "none", title |-> <<>>, titles |-> <<>>, body |-> <<>>]

NoCall == [how |-> "none", text |-> <<>>]
GenIdle == [title_call |-> NoCall, body_call |-> NoCall, calls |-> 0, result |-> NoText]

UiIdle ==
    /\ loaded = FALSE
    /\ driver = FALSE
    /\ llm = FALSE
    /\ runs = 0
    /\ topic_input = <<>>
    /\ count_slider = SliderDefault
    /\ trace = <<>>
    /\ delivered = NoText
    /\ generate_button = TRUE
    /\ status_label = "ready"
    /\ worker = "none"
    /\ signals = <<>>
    /\ gen = GenIdle

Init ==
    /\ ui = "none"
    /\ portal = [ok |-> FALSE, list |-> <<>>]
    /\ UiIdle
    /\ pc = "new"
    /\ model = FALSE
    /\ user_topic \in Topics
    /\ projects \in Lists(Pool, MaxLen)
    /\ top_k \in 1..MaxTopK
    /\ context_texts = <<>>
    /\ cos_scores = <<>>
    /\ top_results_indices = <<>>
    /\ ranked_projects = <<>>
    /\ encodeCalls = 0

\* ContextAnalyzer.__init__: the model loads, or loading raises and model = None
AnalyzerInit ==
    /\ pc = "new"
    /\ \E m \in BOOLEAN : model' = m
    /\ pc' = "idle"
    /\ UNCHANGED <<user_topic, projects, top_k, context_texts, cos_scores,
                   top_results_indices, ranked_projects, encodeCalls, uiVars>>

CallGetRankedContext ==
    /\ pc = "idle"
    /\ \E o \in GetRankedContext(model, user_topic, projects, top_k) :
          /\ context_texts' = o.texts
          /\ cos_scores' = o.scores
          /\ top_results_indices' = o.indices
          /\ ranked_projects' = o.ranked
          /\ encodeCalls' = encodeCalls + o.encodes
    /\ pc' = "done"
    /\ UNCHANGED <<model, user_topic, projects, top_k, uiVars>>

Next == AnalyzerInit \/ CallGetRankedContext

Spec == Init /\ [][Next]_vars

----------------------------------------------------------------------------
(* collector.py *)

\* line 67: def collect(self, source='ntis', limit=10)
CollectParams == {"source", "limit"}

\* the states of the site: the scrape fails, or it lists at least one record
PortalStates ==
    {[ok |-> FALSE, list |-> <<>>]}
        \cup {[ok |-> TRUE, list |-> l] : l \in Lists(CollectedPool, MaxPortal) \ {<<>>}}

\* lines 101-152: _scrape_ntis returns the first `limit` records of the site,
\* or None when anything raised (no list container, no item)
ScrapeNtis(site, limit) ==
    IF site.ok
    THEN [raised |-> FALSE, none |-> FALSE, list |-> Take(site.list, limit)]
    ELSE [raised |-> FALSE, none |-> TRUE, list |-> <<>>]

\* lines 67-70, called with the keyword arguments kwargs: a keyword that is
\* no parameter of collect raises TypeError before the body runs
Collect(d, kwargs, site, limit) ==
    IF ~(kwargs \subseteq CollectParams)
    THEN [raised |-> TRUE, none |-> TRUE, list |-> <<>>]
    ELSE IF ~d THEN [raised |-> FALSE, none |-> TRUE, list |-> <<>>]
    ELSE ScrapeNtis(site, limit)

\* `if projects` on what collect returned: None and [] are both false
Truthy(c) == ~c.none /\ Len(c.list) > 0

----------------------------------------------------------------------------
(* generator.py *)

NL == "\n"

\* line 28 and line 34: the two error strings of _generate
ErrUninit == <<"err", ":", " ", "uninitialized", ".">>
ErrApi == <<"err", ":", " ", "api", ".", " ", "(", "e", ")">>

\* replies of the LLM to the title prompt and to the body prompt
TitleReplies == {<<"1", ".", " ", "T", NL, "2", ".", " ", "U">>, <<"T">>, <<>>}
BodyReplies == {<<"B">>}

\* lines 25-34: _generate
Generate(l, replies) == IF ~l THEN {ErrUninit} ELSE replies \cup {ErrApi}

\* position of the first c in s, 0 when there is none
IndexOf(s, c) ==
    IF \E i \in 1..Len(s) : s[i] = c
    THEN CHOOSE i \in 1..Len(s) : s[i] = c /\ \A j \in 1..(i - 1) : s[j] # c
    ELSE 0

\* position of the first ". " in s, 0 when there is none
IndexOfDotSpace(s) ==
    LET hit(i) == s[i] = "." /\ i + 1 <= Len(s) /\ s[i + 1] = " " IN
    IF \E i \in 1..Len(s) : hit(i)
    THEN CHOOSE i \in 1..Len(s) : hit(i) /\ \A j \in 1..(i - 1) : ~hit(j)
    ELSE 0

\* line 74: titles_text.splitlines()[0].split('. ')[1], or IndexError
FirstTitle(titles_text) ==
    IF Len(titles_text) = 0 THEN [ok |-> FALSE, title |-> <<>>]
    ELSE LET n == IndexOf(titles_text, NL)
             line == IF n = 0 THEN titles_text ELSE SubSeq(titles_text, 1, n - 1)
             d == IndexOfDotSpace(line)
             rest == SubSeq(line, d + 2, Len(line))
             e == IndexOfDotSpace(rest)
         IN  IF d = 0 THEN [ok |-> FALSE, title |-> <<>>]
             ELSE [ok |-> TRUE,
                   title |-> IF e = 0 THEN rest ELSE SubSeq(rest, 1, e - 1)]

\* lines 102-105: the final text, kept as its three variable parts
ProposalText(best_title, titles_text, body_text) ==
    [kind |-> "proposal", title |-> best_title, titles |-> titles_text,
     body |-> body_text]

\* lines 73-77 and 102-107: the first title, or the topic on IndexError, and
\* the final text
Assemble(topic, titles_text, body_text) ==
    LET first == FirstTitle(titles_text)
        best_title == IF first.ok THEN first.title ELSE topic
        titles == IF first.ok THEN titles_text ELSE <<"1", ".", " ">> \o topic
    IN  ProposalText(best_title, titles, body_text)

\* lines 49-107: generate_full_proposal
GenerateFullProposal(l, topic, ranked_context) ==
    {Assemble(topic, titles_text, body_text) :
        titles_text \in Generate(l, TitleReplies),
        body_text \in Generate(l, BodyReplies)}

\* lines 25-34: _generate, with the path it took
GenerateCall(l, replies) ==
    IF ~l THEN {[how |-> "uninitialized", text |-> ErrUninit]}
    ELSE {[how |-> "reply", text |-> r] : r \in replies}
            \cup {[how |-> "raised", text |-> ErrApi]}

\* lines 49-107: generate_full_proposal, with what its two _generate calls did
GenerateFullProposalCall(l, topic, ranked_context) ==
    {[title_call |-> t, body_call |-> b, calls |-> 2,
      result |-> Assemble(topic, t.text, b.text)] :
        t \in GenerateCall(l, TitleReplies), b \in GenerateCall(l, BodyReplies)}

----------------------------------------------------------------------------
(* The generator called on its own *)

InitGen ==
    /\ ui = "none"
    /\ portal = [ok |-> FALSE, list |-> <<>>]
    /\ UiIdle
    /\ pc = "gen_new"
    /\ model = FALSE
    /\ user_topic \in Topics
    /\ projects = <<>>
    /\ top_k = SliderDefault
    /\ context_texts = <<>>
    /\ cos_scores = <<>>
    /\ top_results_indices = <<>>
    /\ ranked_projects \in Lists(Pool, MaxLen)
    /\ encodeCalls = 0

\* lines 9-23: ProposalGenerator.__init__: the model is set, or the key is
\* missing (or configure raises) and model = None
GeneratorInit ==
    /\ pc = "gen_new"
    /\ \E l \in BOOLEAN : llm' = l
    /\ pc' = "gen_idle"
    /\ UNCHANGED <<model, user_topic, projects, top_k, context_texts, cos_scores,
                   top_results_indices, ranked_projects, encodeCalls, ui, loaded,
                   driver, portal, runs, topic_input, count_slider, trace, delivered,
                   generate_button, status_label, worker, signals, gen>>

CallGenerateFullProposal ==
    /\ pc = "gen_idle"
    /\ \E o \in GenerateFullProposalCall(llm, user_topic, ranked_projects) : gen' = o
    /\ pc' = "gen_done"
    /\ UNCHANGED <<model, user_topic, projects, top_k, context_texts, cos_scores,
                   top_results_indices, ranked_projects, encodeCalls, ui, loaded,
                   driver, llm, portal, runs, topic_input, count_slider, trace,
                   delivered, generate_button, status_label, worker, signals>>

NextGen == GeneratorInit \/ CallGenerateFullProposal

SpecGen == InitGen /\ [][NextGen]_vars

ErrorText(msg) == [kind |-> "error", title |-> <<>>, titles |-> <<>>, body |-> msg]

----------------------------------------------------------------------------
(* app.py *)

CollectLimit == 100

\* line 55: collector.collect(source=source, limit=100)
WebCollectKwargs == {"source", "limit"}

\* the topic check left out
WebGuard_SubmittedOnly(submitted, topic) == submitted

\* line 49: if submitted and user_topic
WebGuard(submitted, topic) == submitted /\ topic # <<>>

\* the user types a topic (either program)
EditTopic ==
    /\ ui = "desktop" \/ (ui = "web" /\ loaded)
    /\ \E t \in Topics : topic_input' = t
    /\ UNCHANGED <<analyzerVars, ui, loaded, driver, llm, portal, runs, count_slider,
                   trace, delivered, generate_button, status_label, worker, signals, gen>>

\* the user moves the slider (either program)
MoveSlider ==
    /\ \/ ui = "desktop" /\ count_slider' \in {DeskSliderMin, SliderDefault, DeskSliderMax}
       \/ ui = "web" /\ loaded
             /\ count_slider' \in {WebSliderMin, SliderDefault, WebSliderMax}
    /\ UNCHANGED <<analyzerVars, ui, loaded, driver, llm, portal, runs, topic_input,
                   trace, delivered, generate_button, status_label, worker, signals, gen>>

\* lines 25-86: one run of the script. The first run is the page load: it
\* builds the three components (each constructor catches its own failure);
\* later runs get them from the cache.
WebScriptRun ==
    /\ ui = "web"
    /\ \E submitted \in BOOLEAN, d, m, l \in BOOLEAN :
          /\ loaded => (d = driver /\ m = model /\ l = llm)
          /\ ~loaded => ~submitted
          /\ submitted => runs < MaxRuns
          /\ loaded' = TRUE
          /\ driver' = d
          /\ model' = m
          /\ llm' = l
          /\ runs' = IF submitted THEN runs + 1 ELSE runs
          /\ user_topic' = topic_input
          /\ top_k' = count_slider
          /\ IF ~WebGuard(submitted, topic_input)
             THEN /\ trace' = <<>>
                  /\ delivered' = NoText
                  /\ UNCHANGED <<projects, ranked_projects, encodeCalls>>
             ELSE LET c == Collect(d, WebCollectKwargs, portal, CollectLimit) IN
                  IF c.raised
                  THEN /\ trace' = <<>>
                       /\ delivered' = ErrorText(<<"app_exception">>)
                       /\ UNCHANGED <<projects, ranked_projects, encodeCalls>>
                  ELSE IF ~Truthy(c)
                  THEN /\ trace' = <<"collect">>
                       /\ delivered' = ErrorText(<<"collect_failed">>)
                       /\ UNCHANGED <<projects, ranked_projects, encodeCalls>>
                  ELSE \E o \in GetRankedContext(m, topic_input, c.list, count_slider) :
                       \E text \in GenerateFullProposal(l, topic_input, o.ranked) :
                          /\ trace' = <<"collect", "rank", "generate">>
                          /\ projects' = c.list
                          /\ ranked_projects' = o.ranked
                          /\ encodeCalls' = encodeCalls + o.encodes
                          /\ delivered' = text
    \* the locals of a get_ranked_context call are gone when it has returned
    /\ UNCHANGED <<pc, context_texts, cos_scores, top_results_indices, ui, portal,
                   topic_input, count_slider, generate_button, status_label, worker,
                   signals, gen>>

----------------------------------------------------------------------------
(* main_desktop.py *)

\* lines 39-41: collector.collect(source=..., topic=..., limit=100)
WorkerCollectKwargs == {"source", "topic", "limit"}

Progress(msg) == [sig |-> "progress", msg |-> msg, text |-> NoText]
Finished(text) == [sig |-> "finished", msg |-> "", text |-> text]

\* lines 133-161: the generate button is clicked (a disabled button emits
\* nothing). Worker.__init__ builds the three components.
StartGenerationProcess ==
    /\ ui = "desktop"
    /\ generate_button
    /\ IF topic_input = <<>>
       THEN /\ status_label' = "topic_missing"
            /\ UNCHANGED <<user_topic, top_k, driver, model, llm, runs, trace, delivered,
                           generate_button, worker, signals>>
       ELSE /\ runs < MaxRuns
            /\ runs' = runs + 1
            /\ generate_button' = FALSE
            /\ status_label' = "starting"
            /\ delivered' = NoText
            /\ user_topic' = topic_input
            /\ top_k' = count_slider
            /\ \E d, m, l \in BOOLEAN : driver' = d /\ model' = m /\ llm' = l
            /\ trace' = <<>>
            /\ signals' = <<>>
            /\ worker' = "started"
    /\ UNCHANGED <<pc, projects, context_texts, cos_scores, top_results_indices,
                   ranked_projects, encodeCalls, ui, loaded, portal, topic_input,
                   count_slider, gen>>

\* the except branch only prints the traceback
Except_PrintsOnly(emitted) == emitted

\* lines 65-73: the except branch of run, entered after `emitted`: it emits
\* finished with the error text
Except(emitted) == emitted \o <<Finished(ErrorText(<<"exception">>))>>

\* lines 34-73: Worker.run, in the worker thread
WorkerRun ==
    /\ ui = "desktop"
    /\ worker = "started"
    /\ worker' = "returned"
    /\ LET c == Collect(driver, WorkerCollectKwargs, portal, CollectLimit) IN
       IF c.raised
       THEN /\ trace' = <<>>
            /\ signals' = signals \o Except(<<Progress("1/3")>>)
            /\ UNCHANGED <<projects, ranked_projects, encodeCalls>>
       ELSE IF ~Truthy(c)
       THEN /\ trace' = <<"collect">>
            /\ signals' = signals \o <<Progress("1/3"),
                                       Finished(ErrorText(<<"no_data">>))>>
            /\ UNCHANGED <<projects, ranked_projects, encodeCalls>>
       ELSE \E o \in GetRankedContext(model, user_topic, c.list, top_k) :
            \E text \in GenerateFullProposal(llm, user_topic, o.ranked) :
               /\ trace' = <<"collect", "rank", "generate">>
               /\ projects' = c.list
               /\ ranked_projects' = o.ranked
               /\ encodeCalls' = encodeCalls + o.encodes
               /\ signals' = signals \o <<Progress("1/3"), Progress("2/3"),
                                          Progress("3/3"), Finished(text)>>
    /\ UNCHANGED <<pc, model, user_topic, top_k, context_texts, cos_scores,
                   top_results_indices, ui, loaded, driver, llm, portal, runs,
                   topic_input, count_slider, delivered, generate_button, status_label,
                   gen>>

\* lines 163-164: the main thread handles a progress signal
UpdateStatusLabel ==
    /\ ui = "desktop"
    /\ signals # <<>>
    /\ Head(signals).sig = "progress"
    /\ status_label' = Head(signals).msg
    /\ signals' = Tail(signals)
    /\ UNCHANGED <<analyzerVars, ui, loaded, driver, llm, portal, runs, topic_input,
                   count_slider, trace, delivered, generate_button, worker, gen>>

\* lines 166-170: the main thread handles the finished signal
OnGenerationFinished ==
    /\ ui = "desktop"
    /\ signals # <<>>
    /\ Head(signals).sig = "finished"
    /\ delivered' = Head(signals).text
    /\ status_label' = "done"
    /\ generate_button' = TRUE
    /\ worker' = "finished"
    /\ signals' = Tail(signals)
    /\ UNCHANGED <<analyzerVars, ui, loaded, driver, llm, portal, runs, topic_input,
                   count_slider, trace, gen>>

----------------------------------------------------------------------------
(* The two programs *)

InitUI ==
    /\ ui \in {"web", "desktop"}
    /\ portal \in PortalStates
    /\ UiIdle
    /\ pc = "ui"
    /\ model = FALSE
    /\ user_topic = <<>>
    /\ projects = <<>>
    /\ top_k = SliderDefault
    /\ context_texts = <<>>
    /\ cos_scores = <<>>
    /\ top_results_indices = <<>>
    /\ ranked_projects = <<>>
    /\ encodeCalls = 0

NextUI ==
    \/ EditTopic
    \/ MoveSlider
    \/ WebScriptRun
    \/ StartGenerationProcess
    \/ WorkerRun
    \/ UpdateStatusLabel
    \/ OnGenerationFinished

SpecUI == InitUI /\ [][NextUI]_vars

\* QThread.start() runs Worker.run in the worker thread, and the main thread's
\* event loop handles every queued signal
SpecUIFair ==
    /\ SpecUI
    /\ WF_vars(WorkerRun)
    /\ WF_vars(UpdateStatusLabel)
    /\ WF_vars(OnGenerationFinished)

----------------------------------------------------------------------------
(* Properties of one get_ranked_context call *)

Returned == 1..Len(top_results_indices)
ScoreOf(i) == cos_scores[top_results_indices[i]]
LeftOut == (1..Len(projects)) \ {top_results_indices[i] : i \in Returned}

\* C1: a call returns exactly min(top_k, number of candidates) records, for
\* every topic, candidate list and top_k >= 1.
C1_ExactlyMinTopK ==
    pc = "done" => Len(ranked_projects) = Min(top_k, Len(projects))

\* C2: the result is in descending score order (each returned record scores
\* at least as much as the next one) and no record left out scores strictly
\* more than a returned one.
C2_DescendingScores ==
    pc = "done" =>
        /\ \A i \in Returned : i + 1 \in Returned => ScoreOf(i) >= ScoreOf(i + 1)
        /\ \A j \in LeftOut, i \in Returned : cos_scores[j] <= ScoreOf(i)

C2_Witness ==
    /\ pc = "done"
    /\ Len(ranked_projects) >= 2
    /\ ScoreOf(1) > ScoreOf(2)
    /\ LeftOut # {}

\* C3: candidates with exactly the same score come out in their input order,
\* and at the top_k cut-off the earlier of two tied candidates is the one kept.
C3_TiesInInputOrder ==
    pc = "done" =>
        /\ \A i, j \in Returned :
              (i < j /\ ScoreOf(i) = ScoreOf(j))
                  => top_results_indices[i] < top_results_indices[j]
        /\ \A j \in LeftOut, i \in Returned :
              cos_scores[j] = ScoreOf(i) => top_results_indices[i] < j

\* C4: a call with an empty candidate list returns the empty list and never
\* calls model.encode.
C4_EmptyInput ==
    (pc = "done" /\ projects = <<>>) => (ranked_projects = <<>> /\ encodeCalls = 0)

C4_Witness == pc = "done" /\ projects = <<>> /\ model /\ ranked_projects = <<>>

\* C5: when the model failed to load, the value a call returns is a tagged
\* failure, different from the empty list a call returns for no candidates.
C5_FailureIsTagged ==
    (pc = "done" /\ ~model) => ranked_projects # <<>>

ComparisonFields == {"title", "department"}

\* the comparison fields of p that are present and not null
Comparable(p) ==
    [k \in {f \in ComparisonFields \cap DOMAIN p : ~p[f].none} |-> p[k]]

\* C6: the text built for a candidate treats absent and null comparison
\* fields alike as the empty string: records that differ only in absent versus
\* null fields get the same text, and a record with no comparison field gets
\* the empty string.
C6_NullAndAbsentAreEmpty ==
    (pc = "done" /\ Len(context_texts) > 0) =>
        \A i \in 1..Len(projects) :
            /\ \A j \in 1..Len(projects) :
                  Comparable(projects[i]) = Comparable(projects[j])
                      => context_texts[i] = context_texts[j]
            /\ DOMAIN Comparable(projects[i]) = {} => context_texts[i] = <<>>

\* C9: a call leaves the candidate list as it was, and its result is a
\* selection from it: each returned record is the whole input record at a
\* valid position, and no position is returned twice.
C9_SelectsFromInput ==
    /\ [](pc = "done" =>
            /\ Len(ranked_projects) = Len(top_results_indices)
            /\ \A i \in Returned :
                  /\ top_results_indices[i] \in 1..Len(projects)
                  /\ ranked_projects[i] = projects[top_results_indices[i]]
            /\ \A i, j \in Returned :
                  i # j => top_results_indices[i] # top_results_indices[j])
    /\ [][projects' = projects]_vars

C9_Witness ==
    /\ pc = "done"
    /\ Len(ranked_projects) >= 2
    /\ top_results_indices[1] # 1
    /\ LeftOut # {}

----------------------------------------------------------------------------
(* Properties of the two programs *)

Stages == {trace[i] : i \in 1..Len(trace)}

\* C8: in neither program does a run reach get_ranked_context with an empty
\* topic: whenever the last run entered the ranking stage, the topic it
\* passed is a non-empty string.
C8_RankedTopicNonEmpty ==
    "rank" \in Stages => user_topic # <<>>

C8_Witness ==
    /\ ui = "web"
    /\ trace = <<"collect", "rank", "generate">>
    /\ user_topic = <<"t">>
    /\ delivered.kind = "proposal"

\* C10: in both programs, when a run for a non-empty topic has delivered its
\* text and the collector can deliver a non-empty list (driver up, portal
\* listing records), the run entered collect, rank and generate once each in
\* that order, ranked the collected records, and delivered the proposal.
C10_PipelineDeliversProposal ==
    (delivered.kind # "none" /\ user_topic # <<>> /\ driver /\ portal.ok) =>
        /\ trace = <<"collect", "rank", "generate">>
        /\ projects = Take(portal.list, CollectLimit)
        /\ delivered.kind = "proposal"

----------------------------------------------------------------------------
(* Properties of one generate_full_proposal call *)

TitleGenerationFailed ==
    \/ gen.title_call.how \in {"uninitialized", "raised"}
    \/ ~FirstTitle(gen.title_call.text).ok

\* C11: a call makes both _generate calls and returns a proposal, and
\* whenever title generation failed (model uninitialized, the LLM call raised,
\* or the reply has no first line of the form "<n>. <title>") the title is the
\* user topic and the title list is "1. " followed by the user topic.
C11_TitleFallsBackToTopic ==
    pc = "gen_done" =>
        /\ gen.calls = 2
        /\ gen.result.kind = "proposal"
        /\ TitleGenerationFailed =>
              /\ gen.result.title = user_topic
              /\ gen.result.titles = <<"1", ".", " ">> \o user_topic

----------------------------------------------------------------------------
(* Properties of a desktop generation *)

FinishedCount(q) == Cardinality({i \in 1..Len(q) : q[i].sig = "finished"})

\* C12: every desktop generation ends: Worker.run emits finished exactly
\* once and as its last signal (no progress after it), the generate button
\* is re-enabled only by on_generation_finished, and a disabled generate
\* button is eventually enabled again.
C12_GenerationEnds ==
    /\ [][(worker = "started" /\ worker' = "returned") =>
            /\ FinishedCount(signals') = 1
            /\ signals'[Len(signals')].sig = "finished"]_vars
    /\ [][(~generate_button /\ generate_button') =>
            (worker = "returned" /\ worker' = "finished")]_vars
    /\ (~generate_button ~> generate_button)

C12_Witness ==
    /\ ui = "desktop"
    /\ runs >= 1
    /\ worker = "finished"
    /\ generate_button
    /\ signals = <<>>
    /\ status_label = "done"
    /\ delivered.kind = "error"

====
